---- MODULE Spec2Model ----
(***************************************************************************)
(* Model of the simplestream command line tool (src/main.cpp): the typed   *)
(* JSON accessors, the Product view, the Simplestream catalog queries and  *)
(* the control flow of main.                                               *)
(*                                                                         *)
(* Strings of the program are sequences of one-character strings, so that  *)
(* ends_with, find, lazy_split and the key order of Json::Value are        *)
(* computed character by character.                                        *)
(***************************************************************************)
EXTENDS Integers, Sequences, FiniteSets, TLC

VARIABLES
    document,   \* the text handed to the Simplestream constructor (member order of the text)
    m_root,     \* Simplestream::m_root
    alive,      \* TRUE once the Simplestream constructor has returned normally
    call,       \* the last call made and its arguments
    ret,        \* what that call returned or threw
    args,       \* main: argv[1..]
    pc,         \* main: position in main
    flags,      \* main: list, current, sha256, usage
    releases,   \* main: the release arguments collected for --sha256
    idx,        \* main: loop index (argument loop, release loop)
    reply,      \* main: outcome of client.Get
    io,         \* main: what has been done so far (usage printed, fetch performed, queries made, ...)
    status      \* main: exit status, or "running"

vars == <<document, m_root, alive, call, ret, args, pc, flags, releases, idx, reply, io, status>>

catalogVars == <<document, m_root, alive, call, ret>>
mainVars == <<args, pc, flags, releases, idx, reply, io, status>>

----------------------------------------------------------------------------
(* Bounds *)

MaxProducts == 3
MaxRevisions == 2
MaxArgs == 3

----------------------------------------------------------------------------
(* Program constants and the key names the program reads *)

ARCH_NAME == <<"a","m","d","6","4">>
IMAGE_TAG == <<"d","i","s","k","1",".","i","m","g">>
INFO_TAG == <<"s","h","a","2","5","6">>

K_products == <<"p","r","o","d","u","c","t","s">>
K_supported == <<"s","u","p","p","o","r","t","e","d">>
K_aliases == <<"a","l","i","a","s","e","s">>
K_release == <<"r","e","l","e","a","s","e">>
K_release_title == <<"r","e","l","e","a","s","e","_","t","i","t","l","e">>
K_version == <<"v","e","r","s","i","o","n">>
K_versions == <<"v","e","r","s","i","o","n","s">>
K_pubname == <<"p","u","b","n","a","m","e">>
K_items == <<"i","t","e","m","s">>
S_default == <<"d","e","f","a","u","l","t">>
S_lts == <<"l","t","s">>

----------------------------------------------------------------------------
(* std::string operations *)

\* The characters the model uses, in ascending byte order.
ByteOrder ==
    <<",", "-", ".", "0", "1", "2", "3", "4", "5", "6", "7", "8", "9", ":",
      "U", "_", "a", "b", "c", "d", "e", "f", "g", "h", "i", "j", "k", "l",
      "m", "n", "o", "p", "q", "r", "s", "t", "u", "v", "w", "x", "y", "z">>

ByteIndex ==
    [c \in {ByteOrder[i] : i \in 1..Len(ByteOrder)} |->
        CHOOSE i \in 1..Len(ByteOrder) : ByteOrder[i] = c]

Byte(c) == ByteIndex[c]

\* memcmp over the common prefix, then the shorter string first
\* (the order of the std::map that holds a Json::Value object's members).
KeyLess(a, b) ==
    \/ \E i \in 1..Len(a) :
          /\ i <= Len(b)
          /\ \A j \in 1..(i-1) : a[j] = b[j]
          /\ Byte(a[i]) < Byte(b[i])
    \/ /\ Len(a) < Len(b)
       /\ \A j \in 1..Len(a) : a[j] = b[j]

ends_with(s, suffix) ==
    /\ Len(s) >= Len(suffix)
    /\ SubSeq(s, Len(s) - Len(suffix) + 1, Len(s)) = suffix

starts_with(s, prefix) ==
    /\ Len(s) >= Len(prefix)
    /\ SubSeq(s, 1, Len(prefix)) = prefix

\* s.find(sub) != npos
find(s, sub) ==
    \E i \in 0..(Len(s) - Len(sub)) : SubSeq(s, i + 1, i + Len(sub)) = sub

\* position of the first delimiter in s, 0 when there is none
FirstDelim(s, d) ==
    IF \E i \in 1..Len(s) : s[i] = d
    THEN CHOOSE i \in 1..Len(s) : s[i] = d /\ \A j \in 1..(i-1) : s[j] # d
    ELSE 0

RECURSIVE SplitTail(_, _)
\* the pieces of s when at least one piece is due (after a delimiter an
\* empty rest is still a piece)
SplitTail(s, d) ==
    LET i == FirstDelim(s, d)
    IN  IF i = 0 THEN <<s>>
        ELSE <<SubSeq(s, 1, i - 1)>> \o SplitTail(SubSeq(s, i + 1, Len(s)), d)

\* mutant: the string is not split
lazy_split_whole(s, d) == IF s = <<>> THEN <<>> ELSE <<s>>

\* std::views::lazy_split(d): an empty string has no pieces
lazy_split(s, d) == IF s = <<>> THEN <<>> ELSE SplitTail(s, d)

----------------------------------------------------------------------------
(* Json::Value *)

nullValue == [t |-> "null"]
Bool(b) == [t |-> "bool", b |-> b]
Str(s) == [t |-> "string", s |-> s]
Obj(f) == [t |-> "object", m |-> f]

\* A document text: an object is the sequence of its members as written.
DocObj(members) == [t |-> "object", members |-> members]

DocKeys(d) == {d.members[i][1] : i \in DOMAIN d.members}

\* Json::Reader::parse: members go into the object's map; a repeated key
\* keeps the value written last.
RECURSIVE ParseValue(_)
ParseValue(d) ==
    IF d.t # "object" THEN d
    ELSE Obj([k \in DocKeys(d) |->
                LET last == CHOOSE i \in DOMAIN d.members :
                                /\ d.members[i][1] = k
                                /\ \A j \in DOMAIN d.members :
                                       d.members[j][1] = k => j <= i
                IN  ParseValue(d.members[last][2])])

Ok(v) == [ok |-> TRUE, v |-> v]
Throw(err, what) == [ok |-> FALSE, err |-> err, what |-> what]

\* const Json::Value::operator[](key): the member, the null value when it
\* is absent or the value is null, a Json::LogicError on any other type
Index(val, key) ==
    CASE val.t = "object" ->
            IF key \in DOMAIN val.m THEN Ok(val.m[key]) ELSE Ok(nullValue)
      [] val.t = "null" -> Ok(nullValue)
      [] OTHER -> Throw("logic_error", key)

getObject(val, key) ==
    LET r == Index(val, key)
    IN  IF ~r.ok THEN r
        ELSE IF r.v.t # "object" THEN Throw("runtime_error", key)
        ELSE r

getString(val, key) ==
    LET r == Index(val, key)
    IN  IF ~r.ok THEN r
        ELSE IF r.v.t # "string" THEN Throw("runtime_error", key)
        ELSE Ok(r.v.s)

getBool(val, key) ==
    LET r == Index(val, key)
    IN  IF ~r.ok THEN r
        ELSE IF r.v.t # "bool" THEN Throw("runtime_error", key)
        ELSE Ok(r.v.b)

RECURSIVE SortKeys(_)
SortKeys(S) ==
    IF S = {} THEN <<>>
    ELSE LET least == CHOOSE k \in S : \A o \in S \ {k} : KeyLess(k, o)
         IN  <<least>> \o SortKeys(S \ {least})

\* Json::Value::getMemberNames of an object: the keys of its map, ascending
getMemberNames(val) == SortKeys(DOMAIN val.m)

\* mutant: the first member name instead of the last
getLastMemberName_front(val) ==
    LET members == getMemberNames(val)
    IN  IF members = <<>> THEN Throw("runtime_error", <<>>)
        ELSE Ok(members[1])

getLastMemberName(val) ==
    LET members == getMemberNames(val)
    IN  IF members = <<>> THEN Throw("runtime_error", <<>>)
        ELSE Ok(members[Len(members)])

----------------------------------------------------------------------------
(* Product: a reference to a Json::Value *)

\* Product(getObject(products, prodName)): refers to a member of m_root
NodeRef(key) == [ref |-> "node", key |-> key]

\* Product(Json::nullValue): Json::nullValue is the ValueType enumerator, so
\* the argument is a temporary Json::Value and m_prod refers to it after it
\* has been destroyed
TempRef == [ref |-> "temp", key |-> <<>>]

Crash == [ok |-> FALSE, err |-> "crash", what |-> <<>>]

\* what a read of reused storage may look like when it is not null any more
Garbage ==
    Obj([k \in {K_supported, K_aliases, K_release, K_release_title, K_version, K_versions} |->
            IF k = K_supported THEN Bool(TRUE)
            ELSE IF k = K_versions THEN Obj(<<>>)
            ELSE Str(<<"?">>)])

\* the values a read through m_prod can yield
Reads(root, p) ==
    IF p.ref = "node" THEN {root.m[K_products].m[p.key]}
    ELSE {nullValue, Garbage}

\* explicit operator bool: !!m_prod, and Json::Value::operator! is isNull()
Product_bool(m_prod) == m_prod.t # "null"

Product_getSupported(m_prod) == getBool(m_prod, K_supported)
Product_getAliases(m_prod) == getString(m_prod, K_aliases)
Product_getRelease(m_prod) == getString(m_prod, K_release)
Product_getReleaseTitle(m_prod) == getString(m_prod, K_release_title)
Product_getVersion(m_prod) == getString(m_prod, K_version)

getRevisionObject(m_prod, revision) ==
    LET versions == getObject(m_prod, K_versions)
    IN  IF ~versions.ok THEN versions
        ELSE LET rev == IF revision = <<>> THEN getLastMemberName(versions.v)
                        ELSE Ok(revision)
             IN  IF ~rev.ok THEN rev ELSE getObject(versions.v, rev.v)

Product_getPubname(m_prod, rev) ==
    LET revision == getRevisionObject(m_prod, rev)
    IN  IF ~revision.ok THEN revision ELSE getString(revision.v, K_pubname)

Product_getImageInfo(m_prod, rev) ==
    LET revision == getRevisionObject(m_prod, rev)
    IN  IF ~revision.ok THEN revision
        ELSE LET items == getObject(revision.v, K_items)
             IN  IF ~items.ok THEN items
                 ELSE LET image == getObject(items.v, IMAGE_TAG)
                      IN  IF ~image.ok THEN image
                          ELSE getString(image.v, INFO_TAG)

Getter(name, m_prod) ==
    CASE name = "getSupported" -> Product_getSupported(m_prod)
      [] name = "getAliases" -> Product_getAliases(m_prod)
      [] name = "getRelease" -> Product_getRelease(m_prod)
      [] name = "getReleaseTitle" -> Product_getReleaseTitle(m_prod)
      [] name = "getVersion" -> Product_getVersion(m_prod)

GetterNames == {"getSupported", "getAliases", "getRelease", "getReleaseTitle", "getVersion"}

----------------------------------------------------------------------------
(* Simplestream *)

\* mutant: the constructor also requires a "products" object
Simplestream_ctor_checked(doc) ==
    IF doc.t = "malformed" THEN Throw("runtime_error", <<>>)
    ELSE IF ~getObject(ParseValue(doc), K_products).ok THEN Throw("runtime_error", K_products)
    ELSE Ok(ParseValue(doc))

\* Json::Reader::parse fails on a malformed text
Simplestream_ctor(doc) ==
    IF doc.t = "malformed" THEN Throw("runtime_error", <<>>)
    ELSE Ok(ParseValue(doc))

\* mutant: the architecture name anywhere in the key
filter_anywhere(prod) == find(prod, ARCH_NAME)

filter(prod) == ends_with(prod, ARCH_NAME)

RECURSIVE EmplaceProducts(_, _)
\* the loop "for prodName : productNames" of getProducts
EmplaceProducts(products, names) ==
    IF names = <<>> THEN Ok(<<>>)
    ELSE LET r == getObject(products, Head(names))
         IN  IF ~r.ok THEN r
             ELSE LET rest == EmplaceProducts(products, Tail(names))
                  IN  IF ~rest.ok THEN rest
                      ELSE Ok(<<NodeRef(Head(names))>> \o rest.v)

getProducts(root) ==
    LET products == getObject(root, K_products)
    IN  IF ~products.ok THEN products
        ELSE EmplaceProducts(products.v, SelectSeq(getMemberNames(products.v), filter))

\* a Product made by getProducts refers to a live member of m_root
Node(root, p) == root.m[K_products].m[p.key]

RECURSIVE SupportedLoop(_, _)
SupportedLoop(root, prods) ==
    IF prods = <<>> THEN Ok(<<>>)
    ELSE LET s == Product_getSupported(Node(root, Head(prods)))
         IN  IF ~s.ok THEN s
             ELSE LET rest == SupportedLoop(root, Tail(prods))
                  IN  IF ~rest.ok THEN rest
                      ELSE Ok((IF s.v THEN <<Head(prods)>> ELSE <<>>) \o rest.v)

\* mutant: the supported flag is not looked at
getSupportedProducts_unfiltered(root) == getProducts(root)

getSupportedProducts(root) ==
    LET prods == getProducts(root)
    IN  IF ~prods.ok THEN prods ELSE SupportedLoop(root, prods.v)

RECURSIVE CurrentLoop_exact(_, _)
\* mutant: the alias string has to be "default" itself
CurrentLoop_exact(root, prods) ==
    IF prods = <<>> THEN Ok(TempRef)
    ELSE LET aliases == Product_getAliases(Node(root, Head(prods)))
         IN  IF ~aliases.ok THEN aliases
             ELSE IF aliases.v = S_default THEN Ok(Head(prods))
             ELSE CurrentLoop_exact(root, Tail(prods))

RECURSIVE CurrentLoop(_, _)
CurrentLoop(root, prods) ==
    IF prods = <<>> THEN Ok(TempRef)
    ELSE LET aliases == Product_getAliases(Node(root, Head(prods)))
         IN  IF ~aliases.ok THEN aliases
             ELSE IF find(aliases.v, S_default) THEN Ok(Head(prods))
             ELSE CurrentLoop(root, Tail(prods))

getCurrentProduct(root) ==
    LET prods == getProducts(root)
    IN  IF ~prods.ok THEN prods ELSE CurrentLoop(root, prods.v)

NotLts(a) == a # S_lts

RECURSIVE FindLoop(_, _, _)
FindLoop(root, prods, release) ==
    IF prods = <<>> THEN Ok(TempRef)
    ELSE LET alias == Product_getAliases(Node(root, Head(prods)))
         IN  IF ~alias.ok THEN alias
             ELSE LET aliases == SelectSeq(lazy_split(alias.v, ","), NotLts)
                  IN  IF \E i \in DOMAIN aliases : aliases[i] = release
                      THEN Ok(Head(prods))
                      ELSE LET version == Product_getVersion(Node(root, Head(prods)))
                           IN  IF ~version.ok THEN version
                               ELSE IF find(release, version.v) THEN Ok(Head(prods))
                               ELSE FindLoop(root, Tail(prods), release)

RECURSIVE AliasPass(_, _, _)
AliasPass(root, prods, release) ==
    IF prods = <<>> THEN Ok(TempRef)
    ELSE LET alias == Product_getAliases(Node(root, Head(prods)))
         IN  IF ~alias.ok THEN alias
             ELSE LET aliases == SelectSeq(lazy_split(alias.v, ","), NotLts)
                  IN  IF \E i \in DOMAIN aliases : aliases[i] = release
                      THEN Ok(Head(prods))
                      ELSE AliasPass(root, Tail(prods), release)

RECURSIVE VersionPass(_, _, _)
VersionPass(root, prods, release) ==
    IF prods = <<>> THEN Ok(TempRef)
    ELSE LET version == Product_getVersion(Node(root, Head(prods)))
         IN  IF ~version.ok THEN version
             ELSE IF find(release, version.v) THEN Ok(Head(prods))
             ELSE VersionPass(root, Tail(prods), release)

\* mutant: all aliases are tried before any version string
findProduct_two_pass(root, release) ==
    LET prods == getProducts(root)
    IN  IF ~prods.ok THEN prods
        ELSE LET byAlias == AliasPass(root, prods.v, release)
             IN  IF ~byAlias.ok THEN byAlias
                 ELSE IF byAlias.v.ref = "node" THEN byAlias
                 ELSE VersionPass(root, prods.v, release)

findProduct(root, release) ==
    LET prods == getProducts(root)
    IN  IF ~prods.ok THEN prods ELSE FindLoop(root, prods.v, release)

----------------------------------------------------------------------------
(* The documents and arguments the model ranges over *)

RevisionDoc(pubname, sha) ==
    DocObj(<< <<K_items, DocObj(<< <<IMAGE_TAG, DocObj(<< <<INFO_TAG, Str(sha)>> >>)>> >>)>>,
              <<K_pubname, Str(pubname)>> >>)

ProductDoc(supported, aliases, version, versions) ==
    DocObj(<< <<K_aliases, aliases>>,
              <<K_release, Str(<<"r">>)>>,
              <<K_release_title, Str(<<"R">>)>>,
              <<K_supported, supported>>,
              <<K_version, version>>,
              <<K_versions, versions>> >>)

OneRevision == DocObj(<< <<<<"2">>, RevisionDoc(<<"p">>, <<"x">>)>> >>)

\* well formed product entries
ProductPool ==
    { ProductDoc(Bool(TRUE), Str(<<"d","e","f","a","u","l","t",",","n">>), Str(<<"2">>), OneRevision),
      ProductDoc(Bool(FALSE), Str(<<"l","t","s",",","j">>), Str(<<"1">>), OneRevision),
      ProductDoc(Bool(TRUE), Str(<<"l","t","s">>), Str(<<"n">>), OneRevision),
      ProductDoc(Bool(FALSE), Str(<<"x","d","e","f","a","u","l","t",",">>), Str(<<"1","2">>), OneRevision) }

\* a product entry whose fields are missing or have the wrong type
BrokenProduct == ProductDoc(nullValue, Bool(TRUE), Str(<<"3">>), nullValue)

ProductKeyPool ==
    { <<"b">> \o ARCH_NAME, <<"a", ":">> \o ARCH_NAME, ARCH_NAME, ARCH_NAME \o <<"a">> }

ReleasePool ==
    { <<"n">>, S_lts, <<"j">>, <<"U","1","2">>, <<>> }

RevisionKeyPool == { <<"2">>, <<"1","0">>, <<>> }

RevisionPool ==
    { RevisionDoc(<<"p">>, <<"x">>), RevisionDoc(<<"q">>, <<"y">>), Str(<<"x">>) }

\* the sequences of at most n members with distinct keys
RECURSIVE Members(_, _, _)
Members(keys, values, n) ==
    IF n = 0 THEN { <<>> }
    ELSE LET shorter == Members(keys, values, n - 1)
         IN  shorter \cup
             { Append(ms, <<k, v>>) :
                 ms \in {m \in shorter : Len(m) = n - 1},
                 k \in keys, v \in values }

DistinctKeys(ms) == \A i, j \in DOMAIN ms : ms[i][1] = ms[j][1] => i = j

RootDoc(products) == DocObj(<< <<K_products, products>> >>)

\* documents whose "products" hold up to MaxProducts entries
ProductDocs ==
    { RootDoc(DocObj(ms)) :
        ms \in {m \in Members(ProductKeyPool, ProductPool, MaxProducts) : DistinctKeys(m)} }

\* documents with one product whose "versions" hold up to MaxRevisions entries
RevisionDocs ==
    { RootDoc(DocObj(<< << <<"b">> \o ARCH_NAME,
                           ProductDoc(Bool(TRUE), Str(<<"n">>), Str(<<"2">>), DocObj(ms)) >> >>)) :
        ms \in {m \in Members(RevisionKeyPool, RevisionPool, MaxRevisions) : DistinctKeys(m)} }

\* documents that are malformed, are not an object, lack a "products"
\* object, or hold an entry that is not a well formed product
OddDocs ==
    { [t |-> "malformed"], nullValue, Str(<<"x">>), DocObj(<<>>),
      DocObj(<< <<K_version, Str(<<"1">>)>> >>),
      RootDoc(Str(<<"x">>)), RootDoc(nullValue),
      RootDoc(DocObj(<< <<ARCH_NAME, Str(<<"x">>)>> >>)),
      RootDoc(DocObj(<< <<ARCH_NAME \o <<"a">>, Str(<<"x">>)>> >>)),
      RootDoc(DocObj(<< <<ARCH_NAME, BrokenProduct>> >>)),
      RootDoc(DocObj(<< <<ARCH_NAME, ProductDoc(Bool(TRUE), Str(<<>>), Str(<<"2">>), OneRevision)>> >>)),
      RootDoc(DocObj(<< <<ARCH_NAME, ProductDoc(Bool(TRUE), Str(S_default), nullValue, OneRevision)>> >>)),
      RootDoc(DocObj(<< <<ARCH_NAME, ProductDoc(Bool(TRUE), Str(<<"n">>), nullValue, OneRevision)>> >>)),
      RootDoc(DocObj(<< <<<<"b">> \o ARCH_NAME, BrokenProduct>>,
                        <<ARCH_NAME, ProductDoc(Bool(TRUE), Str(S_default), Str(<<"2">>), OneRevision)>> >>)),
      RootDoc(DocObj(<< <<<<"b">> \o ARCH_NAME, ProductDoc(Bool(TRUE), Str(<<"n">>), Str(<<"2">>), DocObj(<<>>))>>,
                        <<ARCH_NAME, BrokenProduct>> >>)) }

\* no Product
NoProduct == [ref |-> "none", key |-> <<>>]

\* a call: its name and its arguments (those it does not take are empty)
Call(op) == [op |-> op, release |-> <<>>, prod |-> NoProduct, given |-> FALSE, rev |-> <<>>]

None == Call("none")

\* what a call returned: a list of Products, a Product, a string or a
\* boolean, each in its own field; or the exception it threw
Returned ==
    [ok |-> TRUE, err |-> "", what |-> <<>>,
     list |-> <<>>, prod |-> NoProduct, str |-> <<>>, flag |-> FALSE]

Thrown(r) == [Returned EXCEPT !.ok = FALSE, !.err = r.err, !.what = r.what]

RetList(r) == IF r.ok THEN [Returned EXCEPT !.list = r.v] ELSE Thrown(r)
RetProduct(r) == IF r.ok THEN [Returned EXCEPT !.prod = r.v] ELSE Thrown(r)
RetString(r) == IF r.ok THEN [Returned EXCEPT !.str = r.v] ELSE Thrown(r)
RetBool(r) == IF r.ok THEN [Returned EXCEPT !.flag = r.v] ELSE Thrown(r)

MainIdle ==
    /\ args = <<>>
    /\ pc = "idle"
    /\ flags = [list |-> FALSE, current |-> FALSE, sha256 |-> FALSE, usage |-> FALSE]
    /\ releases = <<>>
    /\ idx = 0
    /\ reply = "none"
    /\ io = {}
    /\ status = "running"

----------------------------------------------------------------------------
(* The catalog and its products, called directly *)

Init ==
    /\ document \in ProductDocs \cup OddDocs
    /\ m_root = nullValue
    /\ alive = FALSE
    /\ call = None
    /\ ret = Returned
    /\ MainIdle

\* Simplestream stream(document)
Construct ==
    /\ call = None
    /\ LET r == Simplestream_ctor(document)
       IN  /\ m_root' = IF r.ok THEN r.v ELSE m_root
           /\ alive' = r.ok
           /\ call' = Call("Simplestream")
           /\ ret' = IF r.ok THEN Returned ELSE Thrown(r)
    /\ UNCHANGED <<document>>
    /\ UNCHANGED mainVars

GetProducts ==
    /\ alive
    /\ call' = Call("getProducts")
    /\ ret' = RetList(getProducts(m_root))
    /\ UNCHANGED <<document, m_root, alive>>
    /\ UNCHANGED mainVars

GetSupportedProducts ==
    /\ alive
    /\ call' = Call("getSupportedProducts")
    /\ ret' = RetList(getSupportedProducts(m_root))
    /\ UNCHANGED <<document, m_root, alive>>
    /\ UNCHANGED mainVars

GetCurrentProduct ==
    /\ alive
    /\ call' = Call("getCurrentProduct")
    /\ ret' = RetProduct(getCurrentProduct(m_root))
    /\ UNCHANGED <<document, m_root, alive>>
    /\ UNCHANGED mainVars

FindProduct ==
    /\ alive
    /\ \E release \in ReleasePool :
          /\ call' = [Call("findProduct") EXCEPT !.release = release]
          /\ ret' = RetProduct(findProduct(m_root, release))
    /\ UNCHANGED <<document, m_root, alive>>
    /\ UNCHANGED mainVars

ListQueries == {"getProducts", "getSupportedProducts"}
ProductQueries == {"getCurrentProduct", "findProduct"}

\* the Products the caller holds after the last query
Held ==
    IF call.op \in ListQueries /\ ret.ok THEN {ret.list[i] : i \in DOMAIN ret.list}
    ELSE IF call.op \in ProductQueries /\ ret.ok THEN {ret.prod}
    ELSE {}

\* the outcomes of a member function that reads through m_prod, given its
\* results on the values the read can yield; through a reference to a
\* destroyed temporary the read is undefined and may also fault
Outcomes(p, results) ==
    results \cup (IF p.ref = "temp" THEN {Crash} ELSE {})

OkBool(m_prod) == Ok(Product_bool(m_prod))

\* static_cast<bool>(prod)
ProductBool ==
    /\ alive
    /\ \E p \in Held :
          /\ call' = [Call("bool") EXCEPT !.prod = p]
          /\ ret' \in {RetBool(OkBool(v)) : v \in Reads(m_root, p)}
    /\ UNCHANGED <<document, m_root, alive>>
    /\ UNCHANGED mainVars

\* prod.getSupported(), getAliases(), getRelease(), getReleaseTitle(), getVersion()
ProductGetter ==
    /\ alive
    /\ \E p \in Held, name \in GetterNames :
          /\ call' = [Call(name) EXCEPT !.prod = p]
          /\ ret' \in {IF name = "getSupported" THEN RetBool(r) ELSE RetString(r) :
                        r \in Outcomes(p, {Getter(name, v) : v \in Reads(m_root, p)})}
    /\ UNCHANGED <<document, m_root, alive>>
    /\ UNCHANGED mainVars

\* prod.getPubname() and prod.getPubname(rev); without an argument rev is
\* the default argument {}, the empty string
GetPubname ==
    /\ alive
    /\ \E p \in Held, given \in BOOLEAN, key \in RevisionKeyPool :
          LET rev == IF given THEN key ELSE <<>>
          IN  /\ ~given => key = <<>>
              /\ call' = [Call("getPubname") EXCEPT !.prod = p, !.given = given, !.rev = rev]
              /\ ret' \in {RetString(r) :
                            r \in Outcomes(p, {Product_getPubname(v, rev) : v \in Reads(m_root, p)})}
    /\ UNCHANGED <<document, m_root, alive>>
    /\ UNCHANGED mainVars

GetImageInfo ==
    /\ alive
    /\ \E p \in Held, given \in BOOLEAN, key \in RevisionKeyPool :
          LET rev == IF given THEN key ELSE <<>>
          IN  /\ ~given => key = <<>>
              /\ call' = [Call("getImageInfo") EXCEPT !.prod = p, !.given = given, !.rev = rev]
              /\ ret' \in {RetString(r) :
                            r \in Outcomes(p, {Product_getImageInfo(v, rev) : v \in Reads(m_root, p)})}
    /\ UNCHANGED <<document, m_root, alive>>
    /\ UNCHANGED mainVars

Next ==
    \/ Construct
    \/ GetProducts
    \/ GetSupportedProducts
    \/ GetCurrentProduct
    \/ FindProduct

Spec == Init /\ [][Next]_vars

\* the same catalog, and the member functions of the Products it hands out
InitProduct ==
    /\ document \in RevisionDocs \cup OddDocs
    /\ m_root = nullValue
    /\ alive = FALSE
    /\ call = None
    /\ ret = Returned
    /\ MainIdle

NextProduct ==
    \/ Construct
    \/ GetProducts
    \/ GetSupportedProducts
    \/ GetCurrentProduct
    \/ FindProduct
    \/ ProductBool
    \/ ProductGetter
    \/ GetPubname
    \/ GetImageInfo

SpecProduct == InitProduct /\ [][NextProduct]_vars

----------------------------------------------------------------------------
(* The document as written, for stating what the queries should return *)

HasMember(d, k) == d.t = "object" /\ k \in DocKeys(d)

\* the value written under key k (the documents of the model write a key once)
Member(d, k) == d.members[CHOOSE i \in DOMAIN d.members : d.members[i][1] = k][2]

KeysAsWritten(d) == [i \in DOMAIN d.members |-> d.members[i][1]]

ProductsAsWritten == Member(document, K_products)

\* "products" is an object of object-valued entries
ProductsWellTyped ==
    /\ HasMember(document, K_products)
    /\ ProductsAsWritten.t = "object"
    /\ \A k \in DocKeys(ProductsAsWritten) : Member(ProductsAsWritten, k).t = "object"

HasArch(k) == Len(k) >= 5 /\ \A i \in 1..5 : k[Len(k) - 5 + i] = ARCH_NAME[i]

EnumeratedKeys == {k \in DocKeys(ProductsAsWritten) : HasArch(k)}

\* the field f of the product written under key k has type t
FieldIs(k, f, t) ==
    /\ HasMember(Member(ProductsAsWritten, k), f)
    /\ Member(Member(ProductsAsWritten, k), f).t = t

Field(k, f) == Member(Member(ProductsAsWritten, k), f)

RefKeys(list) == [i \in DOMAIN list |-> list[i].key]

Ascending(keys) == \A i, j \in DOMAIN keys : i < j => KeyLess(keys[i], keys[j])

\* sub occurs in s
Occurs(sub, s) ==
    \E i \in 1..(Len(s) + 1) : \E j \in (i - 1)..Len(s) :
        /\ j - i + 1 = Len(sub)
        /\ \A n \in 1..Len(sub) : s[i + n - 1] = sub[n]

\* piece is one of the comma-separated pieces of s (the empty string has none)
IsPiece(piece, s) ==
    /\ s # <<>>
    /\ \A n \in DOMAIN piece : piece[n] # ","
    /\ \E i \in 1..(Len(s) + 1) :
          /\ i = 1 \/ s[i - 1] = ","
          /\ i + Len(piece) - 1 <= Len(s)
          /\ \A n \in 1..Len(piece) : s[i + n - 1] = piece[n]
          /\ i + Len(piece) - 1 = Len(s) \/ s[i + Len(piece)] = ","

----------------------------------------------------------------------------
(* C1 *)

\* C1 as stated: for a document whose "products" is an object of objects,
\* getProducts() returns the views of exactly the entries whose key ends
\* with "amd64", in the order in which the entries are written.
C1_AsWritten ==
    (call.op = "getProducts" /\ ProductsWellTyped) =>
        /\ ret.ok
        /\ RefKeys(ret.list) = SelectSeq(KeysAsWritten(ProductsAsWritten), HasArch)

\* C1 amended: for a document whose "products" is an object of objects,
\* getProducts() returns one view for each entry whose key ends with
\* "amd64" and none for any other key, in ascending byte order of the keys.
C1_Sorted ==
    (call.op = "getProducts" /\ ProductsWellTyped) =>
        /\ ret.ok
        /\ \A i \in DOMAIN ret.list : ret.list[i].ref = "node"
        /\ {ret.list[i].key : i \in DOMAIN ret.list} = EnumeratedKeys
        /\ Ascending(RefKeys(ret.list))

\* two entries are enumerated, one is left out, and the enumeration is not
\* in the order of the text
C1_Witness ==
    /\ call.op = "getProducts"
    /\ ProductsWellTyped
    /\ ret.ok
    /\ Len(ret.list) = 2
    /\ Len(ProductsAsWritten.members) = 3
    /\ RefKeys(ret.list) # SelectSeq(KeysAsWritten(ProductsAsWritten), HasArch)

----------------------------------------------------------------------------
(* C2 *)

Parses == document.t # "malformed"

\* C2 as stated: for a document that parses but has no "products" member,
\* no Simplestream object comes to exist.
C2_NoCatalog ==
    (Parses /\ ~HasMember(document, K_products)) => ~alive

Queries == {"getProducts", "getSupportedProducts", "getCurrentProduct", "findProduct"}

\* C2 amended: for a document that parses but has no "products" member,
\* the constructor succeeds and every query made on the object fails.
C2_QueriesFail ==
    (Parses /\ ~HasMember(document, K_products)) =>
        /\ call.op = "Simplestream" => (ret.ok /\ alive)
        /\ call.op \in Queries => (alive /\ ~ret.ok)

C2_Witness ==
    /\ Parses
    /\ document.t = "object"
    /\ ~HasMember(document, K_products)
    /\ call.op = "getProducts"
    /\ ~ret.ok

----------------------------------------------------------------------------
(* C3 *)

SupportedTyped ==
    /\ ProductsWellTyped
    /\ \A k \in EnumeratedKeys : FieldIs(k, K_supported, "bool")

IsSupported(p) == Field(p.key, K_supported).b

\* C3: when every enumerated product has a boolean "supported",
\* getSupportedProducts() is the subsequence of getProducts() of the
\* products whose "supported" is true.
C3_Supported ==
    (call.op = "getSupportedProducts" /\ SupportedTyped) =>
        /\ ret.ok
        /\ ret.list = SelectSeq(getProducts(m_root).v, IsSupported)

\* two supported products around one that is not
C3_Witness ==
    /\ call.op = "getSupportedProducts"
    /\ SupportedTyped
    /\ ret.ok
    /\ Len(ret.list) = 2
    /\ Len(getProducts(m_root).v) = 3
    /\ ~IsSupported(getProducts(m_root).v[2])

----------------------------------------------------------------------------
(* C4 *)

AliasesTyped ==
    /\ ProductsWellTyped
    /\ \A k \in EnumeratedKeys : FieldIs(k, K_aliases, "string")

HasDefault(p) == Occurs(S_default, Field(p.key, K_aliases).s)

\* C4: when every enumerated product has a string "aliases",
\* getCurrentProduct() returns the empty Product exactly when no enumerated
\* product's alias string contains "default", and otherwise the first
\* product of the enumeration whose alias string contains it.
C4_Current ==
    (call.op = "getCurrentProduct" /\ AliasesTyped) =>
        LET prods == getProducts(m_root).v
            hits == {i \in DOMAIN prods : HasDefault(prods[i])}
        IN  /\ ret.ok
            /\ ret.prod.ref = "temp" <=> hits = {}
            /\ hits # {} =>
                  \E i \in hits : ret.prod = prods[i] /\ \A j \in hits : i <= j

\* the current product is not the first of the enumeration, and "default"
\* is only part of one of its aliases
C4_Witness ==
    /\ call.op = "getCurrentProduct"
    /\ AliasesTyped
    /\ ret.ok
    /\ ret.prod.ref = "node"
    /\ ret.prod # getProducts(m_root).v[1]
    /\ ~IsPiece(S_default, Field(ret.prod.key, K_aliases).s)

----------------------------------------------------------------------------
(* C5 and C9 *)

WellFormed ==
    /\ ProductsWellTyped
    /\ \A k \in EnumeratedKeys :
          FieldIs(k, K_aliases, "string") /\ FieldIs(k, K_version, "string")

AliasMatch(p, release) ==
    release # S_lts /\ IsPiece(release, Field(p.key, K_aliases).s)

VersionMatch(p, release) == Occurs(Field(p.key, K_version).s, release)

\* C5 as stated: when the token equals an alias, other than "lts", of some
\* enumerated product, findProduct(token) returns the first enumerated
\* product with such an alias, whatever the version strings are.
C5_AliasFirst ==
    (call.op = "findProduct" /\ WellFormed) =>
        LET prods == getProducts(m_root).v
            hits == {i \in DOMAIN prods : AliasMatch(prods[i], call.release)}
        IN  hits # {} =>
                /\ ret.ok
                /\ \E i \in hits : ret.prod = prods[i] /\ \A j \in hits : i <= j

\* C5 amended: when the token equals an alias, other than "lts", of some
\* enumerated product, and the token contains the version string of no
\* product enumerated before the first such product, findProduct(token)
\* returns that first product.
C5_AliasFirstUnlessVersion ==
    (call.op = "findProduct" /\ WellFormed) =>
        LET prods == getProducts(m_root).v
            hits == {i \in DOMAIN prods : AliasMatch(prods[i], call.release)}
        IN  \A i \in hits :
                (\A j \in 1..(i - 1) :
                    /\ j \notin hits
                    /\ ~VersionMatch(prods[j], call.release)) =>
                (ret.ok /\ ret.prod = prods[i])

\* the product found by alias is not the first of the enumeration, and the
\* token also contains the version string of a later product
C5_Witness ==
    /\ call.op = "findProduct"
    /\ WellFormed
    /\ ret.ok
    /\ ret.prod.ref = "node"
    /\ LET prods == getProducts(m_root).v
       IN  /\ AliasMatch(ret.prod, call.release)
           /\ ret.prod # prods[1]
           /\ \E j \in DOMAIN prods :
                 prods[j] # ret.prod /\ VersionMatch(prods[j], call.release)

\* C9: findProduct(token) returns the first product of the enumeration
\* for which the token equals one of its comma-separated aliases other
\* than "lts" or contains its version string, so that an earlier product
\* matched by version only wins over a later one matched by alias, and it
\* returns the empty Product when there is no such product.
C9_SinglePass ==
    (call.op = "findProduct" /\ WellFormed) =>
        LET prods == getProducts(m_root).v
            hits == {i \in DOMAIN prods :
                        \/ AliasMatch(prods[i], call.release)
                        \/ VersionMatch(prods[i], call.release)}
        IN  /\ ret.ok
            /\ ret.prod.ref = "temp" <=> hits = {}
            /\ hits # {} =>
                  \E i \in hits : ret.prod = prods[i] /\ \A j \in hits : i <= j

\* a product matched by version only is returned although a later product
\* has the token as an alias
C9_Witness ==
    /\ call.op = "findProduct"
    /\ WellFormed
    /\ ret.ok
    /\ ret.prod.ref = "node"
    /\ ~AliasMatch(ret.prod, call.release)
    /\ \E j \in DOMAIN getProducts(m_root).v :
          AliasMatch(getProducts(m_root).v[j], call.release)

----------------------------------------------------------------------------
(* C6 *)

Failed == [ok |-> FALSE]

\* what getPubname and getImageInfo read from a revision entry as written
PubnameOf(e) ==
    IF /\ HasMember(e, K_pubname)
       /\ Member(e, K_pubname).t = "string"
    THEN Ok(Member(e, K_pubname).s)
    ELSE Failed

ImageInfoOf(e) ==
    IF /\ HasMember(e, K_items)
       /\ HasMember(Member(e, K_items), IMAGE_TAG)
       /\ HasMember(Member(Member(e, K_items), IMAGE_TAG), INFO_TAG)
       /\ Member(Member(Member(e, K_items), IMAGE_TAG), INFO_TAG).t = "string"
    THEN Ok(Member(Member(Member(e, K_items), IMAGE_TAG), INFO_TAG).s)
    ELSE Failed

ReadOf(op, e) == IF op = "getPubname" THEN PubnameOf(e) ELSE ImageInfoOf(e)

SameOutcome(r, expected) ==
    /\ r.ok = expected.ok
    /\ r.ok => r.str = expected.v

VersionsOf(p) == Field(p.key, K_versions)

\* a call of getPubname or getImageInfo on a valid product whose "versions"
\* is a non-empty object
RevisionCall ==
    /\ call.op \in {"getPubname", "getImageInfo"}
    /\ call.prod.ref = "node"
    /\ ProductsWellTyped
    /\ FieldIs(call.prod.key, K_versions, "object")
    /\ VersionsOf(call.prod).members # <<>>

LastWritten(d) == d.members[Len(d.members)][1]

Greatest(d) == CHOOSE k \in DocKeys(d) : \A o \in DocKeys(d) \ {k} : KeyLess(o, k)

\* C6 as stated: without a revision key getPubname and getImageInfo read
\* the entry under the key written last in "versions"; with a key k they
\* read the entry under k and fail when there is none.
C6_LastWritten ==
    RevisionCall =>
        LET versions == VersionsOf(call.prod)
        IN  IF ~call.given
            THEN SameOutcome(ret, ReadOf(call.op, Member(versions, LastWritten(versions))))
            ELSE IF HasMember(versions, call.rev)
                 THEN SameOutcome(ret, ReadOf(call.op, Member(versions, call.rev)))
                 ELSE ~ret.ok

\* C6 amended: without a revision key, or with the empty string as the
\* key, getPubname and getImageInfo read the entry under the greatest key
\* of "versions" in byte order; with a non-empty key k they read the entry
\* under k and fail when there is none.
C6_GreatestKey ==
    RevisionCall =>
        LET versions == VersionsOf(call.prod)
        IN  IF ~call.given \/ call.rev = <<>>
            THEN SameOutcome(ret, ReadOf(call.op, Member(versions, Greatest(versions))))
            ELSE IF HasMember(versions, call.rev)
                 THEN SameOutcome(ret, ReadOf(call.op, Member(versions, call.rev)))
                 ELSE ~ret.ok

\* no key is given, and the entry read is not the one written last
C6_Witness ==
    /\ RevisionCall
    /\ ~call.given
    /\ ret.ok
    /\ LET versions == VersionsOf(call.prod)
       IN  /\ Len(versions.members) = 2
           /\ LastWritten(versions) # Greatest(versions)
           /\ ~SameOutcome(ret, ReadOf(call.op, Member(versions, LastWritten(versions))))

----------------------------------------------------------------------------
(* C7 *)

ProductCalls == GetterNames \cup {"getPubname", "getImageInfo"}

\* C7: the Product returned by getCurrentProduct() or findProduct() when
\* nothing matches converts to false and each of its getters fails with an
\* error, and every Product returned by getProducts() converts to true.
C7_EmptyProduct ==
    /\ (call.op = "bool" /\ call.prod.ref = "temp") => (ret.ok /\ ret.flag = FALSE)
    /\ (call.op \in ProductCalls /\ call.prod.ref = "temp") =>
          (~ret.ok /\ ret.err = "runtime_error")
    /\ (call.op = "bool" /\ call.prod.ref = "node") => (ret.ok /\ ret.flag = TRUE)

----------------------------------------------------------------------------
(* main *)

EXIT_SUCCESS == "EXIT_SUCCESS"
EXIT_FAILURE == "EXIT_FAILURE"
\* std::terminate on an exception no handler catches, or a fault: the
\* process is killed by a signal and its status is not zero
Abnormal == "abnormal"

A_list == <<"-","-","l","i","s","t">>
A_current == <<"-","-","c","u","r","r","e","n","t">>
A_sha256 == <<"-","-","s","h","a","2","5","6">>
A_help == <<"-","-","h","e","l","p">>

\* mutant: an argument without a dash is always taken as a release
ParseArgument_any_release(arg, fl) ==
    LET dashed == starts_with(arg, <<"-">>) /\ ~starts_with(arg, <<"-","-">>)
        isRelease == ~starts_with(arg, <<"-">>)
        l == arg = A_list \/ (dashed /\ find(arg, <<"l">>))
        c == arg = A_current \/ (dashed /\ find(arg, <<"c">>))
        sh == arg = A_sha256 \/ (dashed /\ find(arg, <<"s">>))
        h == arg = A_help \/ (dashed /\ find(arg, <<"h">>))
    IN  [parsed |-> isRelease \/ l \/ c \/ sh \/ h,
         release |-> isRelease,
         flags |-> [list |-> fl.list \/ l, current |-> fl.current \/ c,
                    sha256 |-> fl.sha256 \/ sh, usage |-> fl.usage \/ h]]

\* one iteration of the argument loop: the flags after it, whether the
\* argument is a release, whether it was recognised
ParseArgument(arg, fl) ==
    LET isRelease == fl.sha256 /\ ~starts_with(arg, <<"-">>)
        dashed == starts_with(arg, <<"-">>) /\ ~starts_with(arg, <<"-","-">>)
        l == arg = A_list \/ (dashed /\ find(arg, <<"l">>))
        c == arg = A_current \/ (dashed /\ find(arg, <<"c">>))
        sh == arg = A_sha256 \/ (dashed /\ find(arg, <<"s">>))
        h == arg = A_help \/ (dashed /\ find(arg, <<"h">>))
    IN  [parsed |-> isRelease \/ l \/ c \/ sh \/ h,
         release |-> isRelease,
         flags |-> [list |-> fl.list \/ l, current |-> fl.current \/ c,
                    sha256 |-> fl.sha256 \/ sh, usage |-> fl.usage \/ h]]

\* mutant: the handler reports success
CatchStatus_success == EXIT_SUCCESS

\* the status returned by the handler of std::runtime_error
CatchStatus == EXIT_FAILURE

\* where an exception that leaves the try block ends the run: the handler
\* catches std::runtime_error only, Json::LogicError is not one
Raised(r) ==
    CASE r.err = "runtime_error" -> [status |-> CatchStatus, events |-> {"core_error", "diagnostic"}]
      [] r.err = "logic_error" -> [status |-> Abnormal, events |-> {"core_error"}]
      [] r.err = "crash" -> [status |-> Abnormal, events |-> {"crash"}]

RECURSIVE PrintReleases(_, _)
\* the loop that prints the title and the name of each supported release
PrintReleases(root, rels) ==
    IF rels = <<>> THEN Ok(<<>>)
    ELSE LET title == Product_getReleaseTitle(Node(root, Head(rels)))
         IN  IF ~title.ok THEN title
             ELSE LET release == Product_getRelease(Node(root, Head(rels)))
                  IN  IF ~release.ok THEN release
                      ELSE PrintReleases(root, Tail(rels))

ArgPool ==
    { <<"-","l">>, <<"-","c","s">>, <<"-","h">>, <<"-","x">>, <<"-","-">>,
      A_help, A_sha256, A_current, <<"n">>, <<"z">> }

RECURSIVE ArgLists(_)
ArgLists(n) ==
    IF n = 0 THEN { <<>> }
    ELSE LET shorter == ArgLists(n - 1)
         IN  shorter \cup
             { Append(as, a) : as \in {x \in shorter : Len(x) = n - 1}, a \in ArgPool }

MainDocs ==
    { [t |-> "malformed"], Str(<<"x">>), DocObj(<<>>),
      RootDoc(DocObj(<< << <<"b">> \o ARCH_NAME,
                           ProductDoc(Bool(TRUE), Str(<<"d","e","f","a","u","l","t",",","n">>), Str(<<"2">>), OneRevision) >>,
                        << ARCH_NAME,
                           ProductDoc(Bool(FALSE), Str(<<"l","t","s",",","j">>), Str(<<"1">>), OneRevision) >> >>)),
      RootDoc(DocObj(<< << ARCH_NAME,
                           ProductDoc(Bool(TRUE), Str(<<"l","t","s",",","n">>), Str(<<"1">>), DocObj(<<>>)) >> >>)),
      RootDoc(DocObj(<< << ARCH_NAME, BrokenProduct >> >>)) }

InitMain ==
    /\ document \in MainDocs
    /\ m_root = nullValue
    /\ alive = FALSE
    /\ call = None
    /\ ret = Returned
    /\ args \in ArgLists(MaxArgs)
    /\ pc = "start"
    /\ flags = [list |-> FALSE, current |-> FALSE, sha256 |-> FALSE, usage |-> FALSE]
    /\ releases = <<>>
    /\ idx = 0
    /\ reply = "none"
    /\ io = {}
    /\ status = "running"

\* return st, having done the things in events
Return(st, events) ==
    /\ pc' = "done"
    /\ status' = st
    /\ io' = io \cup events

\* if (args.empty())
CheckArgs ==
    /\ pc = "start"
    /\ IF args = <<>>
       THEN /\ Return(EXIT_FAILURE, {"usage", "arg_error"})
            /\ UNCHANGED idx
       ELSE /\ pc' = "parse"
            /\ idx' = 1
            /\ UNCHANGED <<io, status>>
    /\ UNCHANGED <<args, flags, releases, reply>>
    /\ UNCHANGED catalogVars

\* for (auto arg : args), one argument
ParseArg ==
    /\ pc = "parse"
    /\ LET r == ParseArgument(args[idx], flags)
       IN  /\ flags' = r.flags
           /\ releases' = IF r.release THEN Append(releases, args[idx]) ELSE releases
           /\ IF ~r.parsed
              THEN /\ Return(EXIT_FAILURE, {"unrecognized", "usage", "arg_error"})
                   /\ UNCHANGED idx
              ELSE /\ pc' = IF idx = Len(args) THEN "help" ELSE "parse"
                   /\ idx' = idx + 1
                   /\ UNCHANGED <<io, status>>
    /\ UNCHANGED <<args, reply>>
    /\ UNCHANGED catalogVars

\* if (usage)
CheckUsage ==
    /\ pc = "help"
    /\ IF flags.usage
       THEN Return(EXIT_SUCCESS, {"usage", "help"})
       ELSE pc' = "fetch" /\ UNCHANGED <<io, status>>
    /\ UNCHANGED <<args, flags, releases, idx, reply>>
    /\ UNCHANGED catalogVars

\* client.Get(SIMPLESTREAM_PATH)
Fetch ==
    /\ pc = "fetch"
    /\ \E got \in BOOLEAN :
          IF got
          THEN /\ reply' = "ok"
               /\ pc' = "construct"
               /\ io' = io \cup {"fetch"}
               /\ UNCHANGED status
          ELSE /\ reply' = "error"
               /\ Return(EXIT_FAILURE, {"fetch", "fetch_failed", "diagnostic"})
    /\ UNCHANGED <<args, flags, releases, idx>>
    /\ UNCHANGED catalogVars

\* Simplestream stream(reply->body)
ConstructStream ==
    /\ pc = "construct"
    /\ LET r == Simplestream_ctor(document)
       IN  IF r.ok
           THEN /\ m_root' = r.v
                /\ alive' = TRUE
                /\ pc' = "list"
                /\ io' = io \cup {"construct"}
                /\ UNCHANGED status
           ELSE /\ Return(Raised(r).status, {"construct"} \cup Raised(r).events)
                /\ UNCHANGED <<m_root, alive>>
    /\ UNCHANGED <<args, flags, releases, idx, reply>>
    /\ UNCHANGED <<document, call, ret>>

\* if (list)
List ==
    /\ pc = "list"
    /\ IF ~flags.list
       THEN pc' = "current" /\ UNCHANGED <<io, status>>
       ELSE LET rels == getSupportedProducts(m_root)
                r == IF ~rels.ok THEN rels ELSE PrintReleases(m_root, rels.v)
            IN  IF r.ok
                THEN pc' = "current" /\ io' = io \cup {"query", "listed"} /\ UNCHANGED status
                ELSE Return(Raised(r).status, {"query"} \cup Raised(r).events)
    /\ UNCHANGED <<args, flags, releases, idx, reply>>
    /\ UNCHANGED catalogVars

\* if (current)
Current ==
    /\ pc = "current"
    /\ IF ~flags.current
       THEN pc' = "sha256" /\ UNCHANGED <<io, status>>
       ELSE LET prod == getCurrentProduct(m_root)
                Version(p) == {Product_getVersion(v) : v \in Reads(m_root, p)}
                Pubname(p) == {Product_getPubname(v, <<>>) : v \in Reads(m_root, p)}
            IN  IF ~prod.ok
                THEN Return(Raised(prod).status, {"query"} \cup Raised(prod).events)
                ELSE \E version \in Outcomes(prod.v, Version(prod.v)) :
                        IF ~version.ok
                        THEN Return(Raised(version).status, {"query"} \cup Raised(version).events)
                        ELSE \E pubname \in Outcomes(prod.v, Pubname(prod.v)) :
                                IF ~pubname.ok
                                THEN Return(Raised(pubname).status, {"query"} \cup Raised(pubname).events)
                                ELSE /\ pc' = "sha256"
                                     /\ io' = io \cup {"query", "current"}
                                     /\ UNCHANGED status
    /\ UNCHANGED <<args, flags, releases, idx, reply>>
    /\ UNCHANGED catalogVars

\* if (sha256), and if (releases.empty())
Sha256 ==
    /\ pc = "sha256"
    /\ IF ~flags.sha256
       THEN pc' = "exit" /\ UNCHANGED <<io, status, idx>>
       ELSE IF releases = <<>>
            THEN Return(EXIT_FAILURE, {"usage", "arg_error"}) /\ UNCHANGED idx
            ELSE pc' = "release" /\ idx' = 1 /\ UNCHANGED <<io, status>>
    /\ UNCHANGED <<args, flags, releases, reply>>
    /\ UNCHANGED catalogVars

\* for (release : releases), one release
Release ==
    /\ pc = "release"
    /\ LET prod == findProduct(m_root, releases[idx])
           Pubname(p) == {Product_getPubname(v, <<>>) : v \in Reads(m_root, p)}
           ImageInfo(p) == {Product_getImageInfo(v, <<>>) : v \in Reads(m_root, p)}
           next == IF idx = Len(releases) THEN "exit" ELSE "release"
       IN  IF ~prod.ok
           THEN Return(Raised(prod).status, {"query"} \cup Raised(prod).events) /\ UNCHANGED idx
           ELSE \E found \in {OkBool(v) : v \in Reads(m_root, prod.v)} :
                   IF ~found.v
                   THEN /\ pc' = next
                        /\ idx' = idx + 1
                        /\ io' = io \cup {"query", "not_found"}
                        /\ UNCHANGED status
                   ELSE \E pubname \in Outcomes(prod.v, Pubname(prod.v)) :
                           IF ~pubname.ok
                           THEN Return(Raised(pubname).status, {"query"} \cup Raised(pubname).events)
                                /\ UNCHANGED idx
                           ELSE \E info \in Outcomes(prod.v, ImageInfo(prod.v)) :
                                   IF ~info.ok
                                   THEN Return(Raised(info).status, {"query"} \cup Raised(info).events)
                                        /\ UNCHANGED idx
                                   ELSE /\ pc' = next
                                        /\ idx' = idx + 1
                                        /\ io' = io \cup {"query", "checksum"}
                                        /\ UNCHANGED status
    /\ UNCHANGED <<args, flags, releases, reply>>
    /\ UNCHANGED catalogVars

\* return EXIT_SUCCESS at the end of main
ReturnSuccess ==
    /\ pc = "exit"
    /\ Return(EXIT_SUCCESS, {"completed"})
    /\ UNCHANGED <<args, flags, releases, idx, reply>>
    /\ UNCHANGED catalogVars

NextMain ==
    \/ CheckArgs
    \/ ParseArg
    \/ CheckUsage
    \/ Fetch
    \/ ConstructStream
    \/ List
    \/ Current
    \/ Sha256
    \/ Release
    \/ ReturnSuccess

SpecMain == InitMain /\ [][NextMain]_vars

----------------------------------------------------------------------------
(* C8 and C10 *)

NotDashed(a) == a = <<>> \/ a[1] # "-"

SingleDash(a) == ~NotDashed(a) /\ (Len(a) < 2 \/ a[2] # "-")

\* a asks for the option with this long name and this letter
Asks(a, long, letter) ==
    a = long \/ (SingleDash(a) /\ \E i \in DOMAIN a : a[i] = letter)

IsOption(a) ==
    \/ Asks(a, A_list, "l")
    \/ Asks(a, A_current, "c")
    \/ Asks(a, A_sha256, "s")
    \/ Asks(a, A_help, "h")

\* a release: not dashed and after an argument that asks for sha256
IsRelease(i) == NotDashed(args[i]) /\ \E j \in 1..(i - 1) : Asks(args[j], A_sha256, "s")

Unrecognised == \E i \in DOMAIN args : ~IsOption(args[i]) /\ ~IsRelease(i)

HelpRequested == \E i \in DOMAIN args : Asks(args[i], A_help, "h")

Sha256NoRelease ==
    /\ \E i \in DOMAIN args : Asks(args[i], A_sha256, "s")
    /\ ~\E i \in DOMAIN args : IsRelease(i)

C10_ParseBeforeFetch ==
    /\ "fetch" \in io => (pc \notin {"start", "parse", "help"} /\ ~Unrecognised)
    /\ Unrecognised =>
          /\ io \cap {"fetch", "construct", "query"} = {}
          /\ pc = "done" => (status = EXIT_FAILURE /\ "unrecognized" \in io)
    /\ (~Unrecognised /\ HelpRequested) =>
          /\ io \cap {"fetch", "construct", "query"} = {}
          /\ pc = "done" => (status = EXIT_SUCCESS /\ "usage" \in io)

\* help ends the run although other options, sha256 without a release
\* among them, were given
C10_Witness ==
    /\ pc = "done"
    /\ ~Unrecognised
    /\ HelpRequested
    /\ flags.current
    /\ Sha256NoRelease
    /\ status = EXIT_SUCCESS

====
